---- MODULE Spec2Model ----
(***************************************************************************)
(* Model of MDI_EF_Analysis.py: the MDI driver that asks an engine for the *)
(* pairwise electric fields (DFIELD / UFIELD) at a set of probe atoms, for *)
(* every frame of a trajectory, and sums them per atom, molecule or        *)
(* residue.                                                                *)
(*                                                                         *)
(* One action per statement of the script that talks to the engine or can  *)
(* raise; `trace` is the history of every call made on the communicator.   *)
(* Python sequences are 0-based, TLA+ sequences 1-based: PyIndex does the   *)
(* translation, negative indices included.                                 *)
(*                                                                         *)
(* Spec follows the whole script: its control flow, its errors and the     *)
(* communicator; of a result row it keeps the probe and the frame, of a    *)
(* chunk of the trajectory the number of its rows.                         *)
(* SpecRow follows lines 257-271 for one frame, with the coordinates and   *)
(* the two tensors as values: what a row holds.  SpecRanks follows the end *)
(* of the script (lines 273-282) when several MPI ranks run it.            *)
(***************************************************************************)
EXTENDS Integers, Sequences, FiniteSets

\* ------------------------------------------------------------------ bounds
MaxAtoms == 2
MaxProbes == 2
MaxFrames == 2

VARIABLES
    pc,                 \* position in the script
    err,                \* "" or the exception that ended the run
    byres, bymol,       \* args.byres, args.bymol
    probes,             \* the parsed -probes list (line 83)
    name,               \* reply to <NAME
    natoms_engine,      \* reply to <NATOMS
    npoles,             \* reply to <NPOLES
    ipoles,             \* reply to <IPOLES
    molecules,          \* reply to <MOLECULES
    residues,           \* reply to <RESIDUES
    probe_pole_indices, \* line 137
    by_type,            \* "molecule" | "residue" | "atom"
    from_fragment,      \* the fragment ids, in column order
    atoms_pole_numbers, \* per fragment, the pole numbers of its atoms
    natoms,             \* atom count on the first line of the snapshot file
    frame,              \* number of chunks the frame loop has taken
    nreduced,           \* number of frames whose rows were all appended
    df_bound,           \* whether dfield_df / ufield_df are bound names
    dfield_df,          \* rows of the current dfield_df
    ufield_df,          \* rows of the current ufield_df
    csv,                \* files written: name -> rows
    trace,              \* every call made on the communicator, in order
    snapshot,           \* columns 2:5 of the chunk read, one line per atom
    snapshot_coords,    \* line 221: the chunk's coordinates, converted
    dfield,             \* line 236: the <DFIELD tensor [probe][site][axis]
    ufield,             \* line 241: the <UFIELD tensor [probe][site][axis]
    iprobe,             \* line 257: the probe loop's index i (0-based)
    to_add_dfield,      \* lines 258-265: the row being built
    to_add_ufield,      \* lines 260-268: the row being built
    rank_pc             \* per MPI rank, its position at the script's end

vars == <<pc, err, byres, bymol, probes, name, natoms_engine, npoles, ipoles,
          molecules, residues, probe_pole_indices, by_type, from_fragment,
          atoms_pole_numbers, natoms, frame, nreduced, df_bound, dfield_df,
          ufield_df, csv, trace, snapshot, snapshot_coords, dfield, ufield,
          iprobe, to_add_dfield, to_add_ufield, rank_pc>>

args == <<byres, bymol, probes>>
engine == <<name, natoms_engine, npoles, ipoles, molecules, residues>>
resolved == <<probe_pole_indices, by_type, from_fragment, atoms_pole_numbers>>
tables == <<df_bound, dfield_df, ufield_df>>
loop == <<frame, nreduced>>
payload == <<snapshot, snapshot_coords, dfield, ufield>>
row == <<iprobe, to_add_dfield, to_add_ufield>>

\* ------------------------------------------------------------ input domains
\* Atom identifiers a user may type: below, inside and above 1..natoms.
ProbeIds == (0 - 1) .. (MaxAtoms + 1)

SeqsUpTo(S, n) == UNION {[1..k -> S] : k \in 0..n}

ProbeLists == SeqsUpTo(ProbeIds, MaxProbes)

\* mdi.MDI_NAME_LENGTH, the size of the <NAME reply.
MDI_NAME_LENGTH == 12

EngineNames == {"NO_EWALD", "OTHER"}

\* A reply to <IPOLES: per atom its pole number (1-based), 0 for an atom
\* that is no multipole site; each of the engine's np poles is one atom.
\* What mdi.MDI_Recv(count, MDI_INT, comm) returns for a reply: the values
\* as an array, and for count 1 the value itself (lines 101 and 106 use the
\* result as a number).
Delivered(count, reply) == IF count = 1 THEN reply[1] ELSE reply

IpolesReplies(n, np) ==
    {ip \in [1..n -> 0..np] :
        \A s \in 1..np : Cardinality({a \in 1..n : ip[a] = s}) = 1}

\* The membership ids an engine hands out: neither contiguous nor, per
\* atom, sorted.
MemberIds == {1, 3}

\* A reply to <MOLECULES or <RESIDUES: one membership id per atom.
MembershipReplies(n) == [1..n -> MemberIds]

\* The replies enumerated for a membership array: every reply when the run
\* reads the array (lines 145-148, 155-158), one reply when no statement
\* of the run reads it.
RepliesRead(read, n) ==
    IF read THEN MembershipReplies(n) ELSE {[a \in 1..n |-> 1]}

\* --------------------------------------------------------- python helpers
\* seq[k] of a Python list or array of length Len(seq): defined for
\* -Len(seq) <= k < Len(seq), an IndexError otherwise.
PyInRange(seq, k) == (0 - Len(seq)) <= k /\ k < Len(seq)

PyIndex(seq, k) == IF k >= 0 THEN seq[k + 1] ELSE seq[Len(seq) + k + 1]

\* The index test of an array axis of size n.
AxisInRange(n, k) == (0 - n) <= k /\ k < n

Min(S) == CHOOSE x \in S : \A y \in S : x <= y

RECURSIVE SortedSeq(_)
SortedSeq(S) == IF S = {} THEN <<>>
                ELSE <<Min(S)>> \o SortedSeq(S \ {Min(S)})

\* np.unique(arr): the sorted distinct values.
Unique(arr) == SortedSeq({arr[a] : a \in DOMAIN arr})

\* np.where(arr == v)[0] + 1: the 1-based positions holding v, ascending.
WherePlusOne(arr, v) == SortedSeq({a \in DOMAIN arr : arr[a] = v})

\* ----------------------------------------------------------- communicator
Ev(op, tok, count, data) == [op |-> op, tok |-> tok, count |-> count, data |-> data]

Cmd(tok) == Ev("cmd", tok, 0, <<>>)

IsCmd(e) == e.op = "cmd"

\* The command tokens sent so far, in order.
Commands == LET sent == SelectSeq(trace, IsCmd)
            IN  [k \in DOMAIN sent |-> sent[k].tok]

Abort(e) == /\ pc' = "aborted"
            /\ err' = e

\* ------------------------------------------------------------------- Init
Init ==
    /\ pc = "start"
    /\ err = ""
    /\ byres \in BOOLEAN
    /\ bymol \in BOOLEAN
    /\ probes \in ProbeLists
    /\ name = ""
    /\ natoms_engine = 0
    /\ npoles = 0
    /\ ipoles = <<>>
    /\ molecules = <<>>
    /\ residues = <<>>
    /\ probe_pole_indices = <<>>
    /\ by_type = ""
    /\ from_fragment = <<>>
    /\ atoms_pole_numbers = <<>>
    /\ natoms = 0
    /\ frame = 0
    /\ nreduced = 0
    /\ df_bound = FALSE
    /\ dfield_df = <<>>
    /\ ufield_df = <<>>
    /\ csv = [f \in {} |-> <<>>]
    /\ trace = <<>>
    /\ snapshot = <<>>
    /\ snapshot_coords = <<>>
    /\ dfield = <<>>
    /\ ufield = <<>>
    /\ iprobe = 0
    /\ to_add_dfield = <<>>
    /\ to_add_ufield = <<>>
    /\ rank_pc = <<>>

\* ------------------------------------------------------- pure computations
\* Line 137: every probe's index atom_number-1 is inside ipoles.
Resolvable(ip, pr) == \A k \in DOMAIN pr : PyInRange(ip, pr[k] - 1)

\* ProbePoleIndices filled from the last probe to the first.
ProbePoleIndices_Reversed(ip, pr) ==
    [k \in DOMAIN pr |-> PyIndex(ip, pr[Len(pr) + 1 - k] - 1)]

\* Line 137: [int(ipoles[atom_number-1]) for atom_number in probes].
ProbePoleIndices(ip, pr) == [k \in DOMAIN pr |-> PyIndex(ip, pr[k] - 1)]

\* Lines 145-152 and 155-162: per sorted unique id, the pole numbers of the
\* atoms holding that id, in atom order.
MembershipFragments(member, ip) ==
    LET ids == Unique(member)
    IN  [f \in DOMAIN ids |->
            LET atoms == WherePlusOne(member, ids[f])
            IN  [j \in DOMAIN atoms |-> PyIndex(ip, atoms[j] - 1)]]

\* Line 168: np.array([[x] for x in ipoles]).
AtomFragments(ip) == [a \in DOMAIN ip |-> <<ip[a]>>]

\* Lines 166-167: list(range(1, natoms_engine+1)).
AtomIds(n) == [a \in 1..n |-> a]

\* Line 252: the column label of a fragment.
Label(type, id) == <<type, id>>

\* One row of dfield_df / ufield_df; `frame` stands for the row's
\* frame-dependent content (coordinates and sums).
Row(p, k) == [ProbeAtom |-> p, frame |-> k]

\* Line 182: MDI_Conversion_Factor("angstrom", "atomic_unit_of_length"),
\* in 1/10000 bohr per angstrom.
angstrom_to_bohr == 18897

\* Coordinates an atom line of the snapshot file may hold (angstrom).
CoordValues == {<<0, 0, 0>>, <<1, 2, 3>>}

\* Columns 2:5 of a chunk that holds n atom lines.
Snapshots(n) == [1..n -> CoordValues]

\* Lines 221-222: every coordinate times the conversion factor.
Convert(snap) ==
    [a \in DOMAIN snap |-> [c \in 1..3 |-> snap[a][c] * angstrom_to_bohr]]

\* Lines 259-268 for probe i raise no IndexError: probes[i] indexes the
\* rows of snapshot_coords (natoms of them, none for an empty chunk), every
\* fragment member minus one indexes the npoles axis of the field tensor.
ProbeRowOk(i) ==
    /\ AxisInRange(Len(snapshot_coords), probes[i])
    /\ \A f \in DOMAIN atoms_pole_numbers :
          \A j \in DOMAIN atoms_pole_numbers[f] :
              AxisInRange(npoles, atoms_pole_numbers[f][j] - 1)

\* The first probe whose row raises, Len(probes)+1 when none does.
FirstBad ==
    Min({i \in DOMAIN probes : ~ProbeRowOk(i)} \cup {Len(probes) + 1})

\* Lines 253-271: a fresh table, then one row per probe appended in order,
\* up to the first probe that raises.
FrameRows(k) == [i \in 1..(FirstBad - 1) |-> Row(probes[i], k)]

\* ---------------------------------------------------------------- actions
\* CheckArgs without the test of line 85.
CheckArgs_NoConflictTest ==
    /\ pc = "start"
    /\ pc' = "role"
    /\ UNCHANGED <<payload, row, rank_pc, err, args, engine, resolved, natoms, loop, tables, csv, trace>>

\* Lines 77-86: MDI_Init, probes parsing, the --byres/--bymol conflict.
CheckArgs ==
    /\ pc = "start"
    /\ IF byres /\ bymol THEN Abort("ConfigError")
       ELSE pc' = "role" /\ err' = err
    /\ UNCHANGED <<payload, row, rank_pc, args, engine, resolved, natoms, loop, tables, csv, trace>>

\* Lines 28-30: the code must run as the driver.
CheckRole ==
    /\ pc = "role"
    /\ \E role \in {"DRIVER", "ENGINE"} :
          IF role = "DRIVER" THEN pc' = "name_cmd" /\ err' = err
          ELSE Abort("NotDriver")
    /\ UNCHANGED <<payload, row, rank_pc, args, engine, resolved, natoms, loop, tables, csv, trace>>

\* MDI_Send_Command(tok, comm) at position `from`.
SendCommand(from, to, tok) ==
    /\ pc = from
    /\ pc' = to
    /\ trace' = Append(trace, Cmd(tok))
    /\ UNCHANGED <<payload, row, rank_pc, err, args, engine, resolved, natoms, loop, tables, csv>>

\* MDI_Send(data, count, type, comm) at position `from`.
SendData(from, to, tok, count, data) ==
    /\ pc = from
    /\ pc' = to
    /\ trace' = Append(trace, Ev("send", tok, count, data))
    /\ UNCHANGED <<payload, row, rank_pc, err, args, engine, resolved, natoms, loop, tables, csv>>

\* A successful MDI_Recv(count, type, comm) at position `from`.
Recv(from, to, tok, count) ==
    /\ pc = from
    /\ pc' = to
    /\ err' = err
    /\ trace' = Append(trace, Ev("recv", tok, count, <<>>))

\* Line 39.
SendNameCmd == SendCommand("name_cmd", "name_recv", "<NAME")

\* Lines 40-49.
RecvName ==
    /\ pc = "name_recv"
    /\ trace' = Append(trace, Ev("recv", "<NAME", MDI_NAME_LENGTH, <<>>))
    /\ \E nm \in EngineNames :
          /\ name' = nm
          /\ IF nm = "NO_EWALD" THEN pc' = "natoms_cmd" /\ err' = err
             ELSE Abort("UnrecognizedEngine")
    /\ UNCHANGED <<payload, row, rank_pc, args, natoms_engine, npoles, ipoles, molecules, residues,
                   resolved, natoms, loop, tables, csv>>

\* Line 100.
SendNatomsCmd == SendCommand("natoms_cmd", "natoms_recv", "<NATOMS")

\* Line 101.
RecvNatoms ==
    /\ Recv("natoms_recv", "npoles_cmd", "<NATOMS", 1)
    /\ natoms_engine' \in 1..MaxAtoms
    /\ UNCHANGED <<payload, row, rank_pc, args, name, npoles, ipoles, molecules, residues,
                   resolved, natoms, loop, tables, csv>>

\* Line 105.
SendNpolesCmd == SendCommand("npoles_cmd", "npoles_recv", "<NPOLES")

\* Line 106.
RecvNpoles ==
    /\ Recv("npoles_recv", "ipoles_cmd", "<NPOLES", 1)
    /\ npoles' \in 0..natoms_engine
    /\ UNCHANGED <<payload, row, rank_pc, args, name, natoms_engine, ipoles, molecules, residues,
                   resolved, natoms, loop, tables, csv>>

\* Line 110.
SendIpolesCmd == SendCommand("ipoles_cmd", "ipoles_recv", "<IPOLES")

\* RecvIpoles going straight to the resolution of the probes.
RecvIpoles_ResolveEarly ==
    /\ Recv("ipoles_recv", "resolve", "<IPOLES", natoms_engine)
    /\ \E reply \in IpolesReplies(natoms_engine, npoles) :
          ipoles' = Delivered(natoms_engine, reply)
    /\ UNCHANGED <<payload, row, rank_pc, args, name, natoms_engine, npoles, molecules, residues,
                   resolved, natoms, loop, tables, csv>>

\* Line 111: for an engine of one atom ipoles is a number, not an array.
RecvIpoles ==
    /\ Recv("ipoles_recv", "molecules_cmd", "<IPOLES", natoms_engine)
    /\ \E reply \in IpolesReplies(natoms_engine, npoles) :
          ipoles' = Delivered(natoms_engine, reply)
    /\ UNCHANGED <<payload, row, rank_pc, args, name, natoms_engine, npoles, molecules, residues,
                   resolved, natoms, loop, tables, csv>>

\* Line 114.
SendMoleculesCmd == SendCommand("molecules_cmd", "molecules_recv", "<MOLECULES")

\* Line 115: for an engine of one atom molecules is a 0-d array, modelled
\* as its value.
RecvMolecules ==
    /\ Recv("molecules_recv", "residues_cmd", "<MOLECULES", natoms_engine)
    /\ \E reply \in RepliesRead(bymol, natoms_engine) :
          molecules' = Delivered(natoms_engine, reply)
    /\ UNCHANGED <<payload, row, rank_pc, args, name, natoms_engine, npoles, ipoles, residues,
                   resolved, natoms, loop, tables, csv>>

\* Line 118.
SendResiduesCmd == SendCommand("residues_cmd", "residues_recv", "<RESIDUES")

\* Line 119: as line 115.
RecvResidues ==
    /\ Recv("residues_recv", "resolve", "<RESIDUES", natoms_engine)
    /\ \E reply \in RepliesRead(byres /\ ~bymol, natoms_engine) :
          residues' = Delivered(natoms_engine, reply)
    /\ UNCHANGED <<payload, row, rank_pc, args, name, natoms_engine, npoles, ipoles, molecules,
                   resolved, natoms, loop, tables, csv>>

\* Line 137: the probes' pole numbers, or the IndexError of a list index
\* out of range, or, ipoles being a number (one atom) and a probe given,
\* the TypeError of subscripting it.
ResolveProbes ==
    /\ pc = "resolve"
    /\ IF natoms_engine = 1 /\ probes # <<>>
       THEN /\ probe_pole_indices' = probe_pole_indices
            /\ Abort("TypeError")
       ELSE IF Resolvable(ipoles, probes)
       THEN /\ probe_pole_indices' = ProbePoleIndices(ipoles, probes)
            /\ pc' = "fragments"
            /\ err' = err
       ELSE /\ probe_pole_indices' = probe_pole_indices
            /\ Abort("IndexError")
    /\ UNCHANGED <<payload, row, rank_pc, args, engine, by_type, from_fragment, atoms_pole_numbers,
                   natoms, loop, tables, csv, trace>>

\* Lines 143-168: by_type, from_fragment and atoms_pole_numbers of the mode.
Fragments ==
    IF bymol
    THEN [type |-> "molecule", ids |-> Unique(molecules),
          poles |-> MembershipFragments(molecules, ipoles)]
    ELSE IF byres
    THEN [type |-> "residue", ids |-> Unique(residues),
          poles |-> MembershipFragments(residues, ipoles)]
    ELSE [type |-> "atom", ids |-> AtomIds(natoms_engine),
          poles |-> AtomFragments(ipoles)]

\* The membership array the mode reads (lines 145, 155).
Membership == IF bymol THEN molecules ELSE residues

\* Lines 141-168. For an engine of one atom ipoles is a number: by_type
\* and from_fragment are bound (lines 144-145, 154-155, 164-167; np.unique
\* of a 0-d array is the array of its value), then ipoles[atom_index - 1]
\* (lines 150, 160) or the iteration over ipoles (line 168) raises
\* TypeError with atoms_pole_numbers still empty.
BuildFragments ==
    /\ pc = "fragments"
    /\ IF natoms_engine = 1
       THEN /\ by_type' = IF bymol THEN "molecule"
                          ELSE IF byres THEN "residue" ELSE "atom"
            /\ from_fragment' = IF bymol \/ byres THEN <<Membership>>
                                ELSE AtomIds(natoms_engine)
            /\ atoms_pole_numbers' = atoms_pole_numbers
            /\ Abort("TypeError")
       ELSE /\ by_type' = Fragments.type
            /\ from_fragment' = Fragments.ids
            /\ atoms_pole_numbers' = Fragments.poles
            /\ pc' = "nprobes_cmd"
            /\ err' = err
    /\ UNCHANGED <<payload, row, rank_pc, args, engine, probe_pole_indices, natoms, loop,
                   tables, csv, trace>>

\* Line 177.
SendNprobesCmd == SendCommand("nprobes_cmd", "nprobes_send", ">NPROBES")

\* Line 178.
SendNprobes ==
    SendData("nprobes_send", "probes_cmd", ">NPROBES", 1, <<Len(probes)>>)

\* Line 179.
SendProbesCmd == SendCommand("probes_cmd", "probes_send", ">PROBES")

\* Line 180.
SendProbes ==
    SendData("probes_send", "open", ">PROBES", Len(probes), probe_pole_indices)

\* CheckCompatibility without the test of line 203.
CheckCompatibility_NoTest ==
    /\ pc = "open"
    /\ natoms' \in 1..MaxAtoms
    /\ pc' = "loop"
    /\ UNCHANGED <<payload, row, rank_pc, err, args, engine, resolved, loop, tables, csv, trace>>

\* Lines 192-205: the atom count of the snapshot file against the engine's.
CheckCompatibility ==
    /\ pc = "open"
    /\ \E n \in 1..MaxAtoms :
          /\ natoms' = n
          /\ IF n # natoms_engine THEN Abort("IncompatibleAtoms")
             ELSE pc' = "loop" /\ err' = err
    /\ UNCHANGED <<payload, row, rank_pc, args, engine, resolved, loop, tables, csv, trace>>

\* Columns 2:5 of the first natoms rows of a chunk (line 221) that holds
\* r atom lines; Spec keeps of a chunk the number of its rows, every
\* coordinate is the same.
Chunk(r) == [a \in 1..r |-> <<1, 2, 3>>]

FullChunk == Chunk(natoms)

\* What read_csv (line 214) yields after k chunks: a frame of natoms atom
\* lines; or fewer, down to one, when the file ends inside the frame (or
\* line 196 took the first atom line for a box line); or, as the first
\* chunk of a file without any line after the skipped ones, none.
Chunks(k) == {Chunk(r) : r \in (IF k = 0 THEN 0 ELSE 1)..natoms}

\* Lines 214-222: read_csv yields the next chunk, which is converted. A
\* chunk of less than natoms rows is the last of its file.
NextFrame ==
    /\ pc = "loop"
    /\ frame < MaxFrames
    /\ frame = 0 \/ Len(snapshot) = natoms
    /\ \E chunk \in Chunks(frame) :
          /\ snapshot' = chunk
          /\ snapshot_coords' = Convert(chunk)
    /\ frame' = frame + 1
    /\ pc' = "coords_cmd"
    /\ UNCHANGED <<dfield, ufield, row, rank_pc, err, args, engine, resolved, natoms, nreduced,
                   tables, csv, trace>>

\* Line 224.
SendCoordsCmd == SendCommand("coords_cmd", "coords_send", ">COORDS")

\* Line 225.
SendCoords == SendData("coords_send", "dfield_cmd", ">COORDS", 3 * natoms, <<>>)

\* SendDfieldCmd not followed by its receive.
SendDfieldCmd_NoReceive == SendCommand("dfield_cmd", "ufield_cmd", "<DFIELD")

\* Line 235.
SendDfieldCmd == SendCommand("dfield_cmd", "dfield_recv", "<DFIELD")

\* Line 236.
RecvDfield ==
    /\ Recv("dfield_recv", "ufield_cmd", "<DFIELD", 3 * npoles * Len(probes))
    /\ UNCHANGED <<payload, row, rank_pc, args, engine, resolved, natoms, loop, tables, csv>>

\* SendUfieldCmd with the token of the total field (line 228).
SendUfieldCmd_Field == SendCommand("ufield_cmd", "ufield_recv", "<FIELD")

\* Line 240.
SendUfieldCmd == SendCommand("ufield_cmd", "ufield_recv", "<UFIELD")

\* RecvUfield with the size of the total field of one probe (line 230).
RecvUfield_FieldSize ==
    /\ Recv("ufield_recv", "reduce", "<UFIELD", 3 * npoles)
    /\ UNCHANGED <<payload, row, rank_pc, args, engine, resolved, natoms, loop, tables, csv>>

\* Line 241.
RecvUfield ==
    /\ Recv("ufield_recv", "reduce", "<UFIELD", 3 * npoles * Len(probes))
    /\ UNCHANGED <<payload, row, rank_pc, args, engine, resolved, natoms, loop, tables, csv>>

\* Reduce with the registration of the probes inside the frame loop.
Reduce_Reregister ==
    /\ pc = "reduce"
    /\ df_bound' = TRUE
    /\ dfield_df' = FrameRows(frame)
    /\ ufield_df' = FrameRows(frame)
    /\ IF FirstBad <= Len(probes)
       THEN Abort("IndexError") /\ nreduced' = nreduced
       ELSE pc' = "nprobes_cmd" /\ err' = err /\ nreduced' = nreduced + 1
    /\ UNCHANGED <<payload, row, rank_pc, args, engine, resolved, natoms, frame, csv, trace>>

\* Lines 251-271: both tables are created anew, then one row per probe is
\* appended to each; an index out of range ends the run.
Reduce ==
    /\ pc = "reduce"
    /\ df_bound' = TRUE
    /\ dfield_df' = FrameRows(frame)
    /\ ufield_df' = FrameRows(frame)
    /\ IF FirstBad <= Len(probes)
       THEN Abort("IndexError") /\ nreduced' = nreduced
       ELSE pc' = "loop" /\ err' = err /\ nreduced' = nreduced + 1
    /\ UNCHANGED <<payload, row, rank_pc, args, engine, resolved, natoms, frame, csv, trace>>

\* An MDI_Recv that returns an error code raises: the run ends there.
RecvPcs == {"name_recv", "natoms_recv", "npoles_recv", "ipoles_recv",
            "molecules_recv", "residues_recv", "dfield_recv", "ufield_recv"}

\* The fetch command whose reply is awaited at position p.
FetchAt(p) ==
    CASE p = "name_recv" -> "<NAME"
      [] p = "natoms_recv" -> "<NATOMS"
      [] p = "npoles_recv" -> "<NPOLES"
      [] p = "ipoles_recv" -> "<IPOLES"
      [] p = "molecules_recv" -> "<MOLECULES"
      [] p = "residues_recv" -> "<RESIDUES"
      [] p = "dfield_recv" -> "<DFIELD"
      [] p = "ufield_recv" -> "<UFIELD"

\* RecvFails with a retry: the failure is noted and the receive is tried
\* again.
RecvFails_Retry ==
    /\ pc \in RecvPcs
    /\ pc' = pc
    /\ err' = err
    /\ trace' = Append(trace, Ev("recv_error", FetchAt(pc), 0, <<>>))
    /\ UNCHANGED <<payload, row, rank_pc, args, engine, resolved, natoms, loop, tables, csv>>

RecvFails ==
    /\ pc \in RecvPcs
    /\ Abort("ProtocolError")
    /\ trace' = Append(trace, Ev("recv_error", FetchAt(pc), 0, <<>>))
    /\ UNCHANGED <<payload, row, rank_pc, args, engine, resolved, natoms, loop, tables, csv>>

\* EndOfFile going straight to the EXIT command, before the tables are
\* written.
EndOfFile_ExitFirst ==
    /\ pc = "loop"
    /\ frame >= 1
    /\ pc' = "exit_cmd"
    /\ UNCHANGED <<payload, row, rank_pc, err, args, engine, resolved, natoms, loop, tables, csv,
                   trace>>

\* EndOfFile with an iterator that may be exhausted before its first chunk.
EndOfFile_BeforeFirstChunk ==
    /\ pc = "loop"
    /\ pc' = "write_d"
    /\ UNCHANGED <<payload, row, rank_pc, err, args, engine, resolved, natoms, loop, tables, csv,
                   trace>>

\* Line 214: read_csv is exhausted, the loop ends. The iterator yields a
\* first chunk whatever the file holds, so the body has run.
EndOfFile ==
    /\ pc = "loop"
    /\ frame >= 1
    /\ pc' = "write_d"
    /\ UNCHANGED <<payload, row, rank_pc, err, args, engine, resolved, natoms, loop, tables, csv,
                   trace>>

WriteCsv(file, rows) ==
    [f \in DOMAIN csv \cup {file} |-> IF f = file THEN rows ELSE csv[f]]

\* Line 273: dfield_df is bound by the loop body (line 253); the name is
\* unbound, and to_csv raises, in a run whose loop body never ran.
WriteDfield ==
    /\ pc = "write_d"
    /\ IF df_bound
       THEN csv' = WriteCsv("dfield.csv", dfield_df) /\ pc' = "write_u" /\ err' = err
       ELSE csv' = csv /\ Abort("NameError")
    /\ UNCHANGED <<payload, row, rank_pc, args, engine, resolved, natoms, loop, tables, trace>>

\* Line 274.
WriteUfield ==
    /\ pc = "write_u"
    /\ csv' = WriteCsv("ufield.csv", ufield_df)
    /\ pc' = "exit_cmd"
    /\ UNCHANGED <<payload, row, rank_pc, err, args, engine, resolved, natoms, loop, tables, trace>>

\* Line 278.
SendExit == SendCommand("exit_cmd", "done", "EXIT")

Next ==
    \/ CheckArgs \/ CheckRole
    \/ SendNameCmd \/ RecvName
    \/ SendNatomsCmd \/ RecvNatoms
    \/ SendNpolesCmd \/ RecvNpoles
    \/ SendIpolesCmd \/ RecvIpoles
    \/ SendMoleculesCmd \/ RecvMolecules
    \/ SendResiduesCmd \/ RecvResidues
    \/ ResolveProbes \/ BuildFragments
    \/ SendNprobesCmd \/ SendNprobes \/ SendProbesCmd \/ SendProbes
    \/ CheckCompatibility
    \/ NextFrame \/ SendCoordsCmd \/ SendCoords
    \/ SendDfieldCmd \/ RecvDfield \/ SendUfieldCmd \/ RecvUfield
    \/ Reduce \/ RecvFails
    \/ EndOfFile \/ WriteDfield \/ WriteUfield \/ SendExit

Spec == Init /\ [][Next]_vars

\* ------------------------------------------------- the content of a row
ZeroVector == <<0, 0, 0>>

\* The field vectors an engine may report for a probe and a site.
FieldValues == {ZeroVector, <<1, 2, 3>>}

\* A reply to <DFIELD or <UFIELD, as line 234 / 239 shapes it:
\* (len(probes), npoles, 3).
FieldReplies(P, np) == [1..P -> [1..np -> FieldValues]]

VectorSum(u, v) == [c \in 1..3 |-> u[c] + v[c]]

\* The axis-0 sum of the rows picked by the indices idx (Python indices,
\* taken one by one, repeated when an index repeats).
RECURSIVE SumRows(_, _)
SumRows(rows, idx) ==
    IF idx = <<>> THEN ZeroVector
    ELSE VectorSum(PyIndex(rows, Head(idx)), SumRows(rows, Tail(idx)))

\* Lines 264 and 267: tensor[i, fragment-1].sum(axis=0).
FieldDueToFragment(tensor, ip, fragment) ==
    SumRows(tensor[ip + 1], [j \in DOMAIN fragment |-> fragment[j] - 1])

\* Lines 258 and 260: the dict of probe i as first bound, before its
\* coordinate is looked up.
ToAddNew(ip) == [ProbeAtom |-> probes[ip + 1]]

\* Lines 258-268 after n passes of the fragment loop: the dict of probe i
\* for one tensor, keyed by 'Probe Atom', 'Probe Coordinates' and the
\* labels of the first n fragments.
ToAddUpTo(tensor, ip, n) ==
    [ProbeAtom |-> probes[ip + 1],
     ProbeCoordinates |-> PyIndex(snapshot_coords, probes[ip + 1]),
     fragments |->
        [l \in {Label(by_type, from_fragment[f]) : f \in 1..n} |->
            LET f == CHOOSE g \in 1..n :
                        Label(by_type, from_fragment[g]) = l
            IN  FieldDueToFragment(tensor, ip, atoms_pole_numbers[f])]]

\* Lines 258-268: the row of probe i for one tensor, every fragment done.
ToAdd(tensor, ip) == ToAddUpTo(tensor, ip, Len(atoms_pole_numbers))

\* Lines 259 and 261: snapshot_coords[probes[i]] is in range.
CoordOk(ip) == AxisInRange(Len(snapshot_coords), probes[ip + 1])

\* Lines 264 and 267: every index of fragment-1 is in range.
FragmentOk(f) ==
    \A j \in DOMAIN atoms_pole_numbers[f] :
        AxisInRange(npoles, atoms_pole_numbers[f][j] - 1)

\* The first fragment whose reduction raises, Len+1 when none does.
FirstBadFragment ==
    Min({f \in DOMAIN atoms_pole_numbers : ~FragmentOk(f)}
        \cup {Len(atoms_pole_numbers) + 1})

Fetch(tok, count) == <<Cmd(tok), Ev("recv", tok, count, <<>>)>>

Push(tok, count, data) == <<Cmd(tok), Ev("send", tok, count, data)>>

\* The calls made when the first frame reaches line 251.
TraceAtReduce ==
    Fetch("<NAME", MDI_NAME_LENGTH) \o Fetch("<NATOMS", 1) \o Fetch("<NPOLES", 1)
    \o Fetch("<IPOLES", natoms_engine) \o Fetch("<MOLECULES", natoms_engine)
    \o Fetch("<RESIDUES", natoms_engine)
    \o Push(">NPROBES", 1, <<Len(probes)>>)
    \o Push(">PROBES", Len(probes), probe_pole_indices)
    \o Push(">COORDS", 3 * natoms, <<>>)
    \o Fetch("<DFIELD", 3 * npoles * Len(probes))
    \o Fetch("<UFIELD", 3 * npoles * Len(probes))

\* The first frame at line 257: the engine has answered, the probes are
\* resolved and registered, the chunk is read and converted, both tensors
\* are received and both tables are created (lines 253-254).
InitRow ==
    /\ pc = "probe_row"
    /\ err = ""
    /\ byres \in BOOLEAN
    /\ bymol \in BOOLEAN
    /\ ~(byres /\ bymol)
    /\ name = "NO_EWALD"
    /\ natoms_engine \in 2..MaxAtoms
    /\ npoles \in 0..natoms_engine
    /\ ipoles \in IpolesReplies(natoms_engine, npoles)
    /\ molecules \in RepliesRead(bymol, natoms_engine)
    /\ residues \in RepliesRead(byres /\ ~bymol, natoms_engine)
    /\ probes \in {pr \in ProbeLists : Resolvable(ipoles, pr)}
    /\ probe_pole_indices = ProbePoleIndices(ipoles, probes)
    /\ by_type = Fragments.type
    /\ from_fragment = Fragments.ids
    /\ atoms_pole_numbers = Fragments.poles
    /\ natoms = natoms_engine
    /\ frame = 1
    /\ nreduced = 0
    /\ df_bound = TRUE
    /\ dfield_df = <<>>
    /\ ufield_df = <<>>
    /\ csv = [f \in {} |-> <<>>]
    /\ trace = TraceAtReduce
    /\ snapshot \in UNION {Snapshots(r) : r \in 0..natoms}
    /\ snapshot_coords = Convert(snapshot)
    /\ dfield \in FieldReplies(Len(probes), npoles)
    /\ ufield \in FieldReplies(Len(probes), npoles)
    /\ iprobe = 0
    /\ to_add_dfield = <<>>
    /\ to_add_ufield = <<>>
    /\ rank_pc = <<>>

\* Lines 257-268 for probe i: both rows are built, or an index is out of
\* range. At line 259 (snapshot_coords) to_add_dfield is already rebound
\* to the new dict and to_add_ufield is still the previous probe's; at
\* line 264 (the tensor) both dicts hold the probe, its coordinate and the
\* fragments reduced before the one that raises.
BuildRow ==
    /\ pc = "probe_row"
    /\ iprobe < Len(probes)
    /\ IF ~CoordOk(iprobe)
       THEN /\ to_add_dfield' = ToAddNew(iprobe)
            /\ to_add_ufield' = to_add_ufield
            /\ Abort("IndexError")
       ELSE IF FirstBadFragment <= Len(atoms_pole_numbers)
       THEN /\ to_add_dfield' = ToAddUpTo(dfield, iprobe, FirstBadFragment - 1)
            /\ to_add_ufield' = ToAddUpTo(ufield, iprobe, FirstBadFragment - 1)
            /\ Abort("IndexError")
       ELSE /\ to_add_dfield' = ToAdd(dfield, iprobe)
            /\ to_add_ufield' = ToAdd(ufield, iprobe)
            /\ pc' = "append"
            /\ err' = err
    /\ UNCHANGED <<args, engine, resolved, natoms, loop, tables, csv, trace,
                   payload, iprobe, rank_pc>>

\* Lines 270-271, then the next probe.
AppendRow ==
    /\ pc = "append"
    /\ dfield_df' = Append(dfield_df, Row(to_add_dfield.ProbeAtom, frame))
    /\ ufield_df' = Append(ufield_df, Row(to_add_ufield.ProbeAtom, frame))
    /\ iprobe' = iprobe + 1
    /\ pc' = "probe_row"
    /\ UNCHANGED <<err, args, engine, resolved, natoms, loop, df_bound, csv,
                   trace, payload, to_add_dfield, to_add_ufield, rank_pc>>

\* Line 257: range(len(probes)) is exhausted.
RowsDone ==
    /\ pc = "probe_row"
    /\ iprobe = Len(probes)
    /\ pc' = "loop"
    /\ nreduced' = nreduced + 1
    /\ UNCHANGED <<err, args, engine, resolved, natoms, frame, tables, csv,
                   trace, payload, row, rank_pc>>

NextRow == BuildRow \/ AppendRow \/ RowsDone

SpecRow == InitRow /\ [][NextRow]_vars

\* ------------------------------------------- the end of a run under MPI
\* The number of MPI ranks the driver is started on.
NRanks == 3

\* Lines 78-80: every rank runs the whole script; world_rank is read and
\* never used.
Ranks == 1..NRanks

\* Every rank has left the frame loop of a one-frame run without probes
\* (both tables created and empty); trace holds the MDI calls made from
\* here on by any rank, on the one connection to the engine.
InitRanks ==
    /\ pc = "ranks"
    /\ err = ""
    /\ byres = FALSE
    /\ bymol = FALSE
    /\ probes = <<>>
    /\ name = "NO_EWALD"
    /\ natoms_engine \in 2..MaxAtoms
    /\ npoles \in 0..natoms_engine
    /\ ipoles \in IpolesReplies(natoms_engine, npoles)
    /\ molecules \in RepliesRead(bymol, natoms_engine)
    /\ residues \in RepliesRead(byres /\ ~bymol, natoms_engine)
    /\ probe_pole_indices = <<>>
    /\ by_type = Fragments.type
    /\ from_fragment = Fragments.ids
    /\ atoms_pole_numbers = Fragments.poles
    /\ natoms = natoms_engine
    /\ frame = 1
    /\ nreduced = 1
    /\ df_bound = TRUE
    /\ dfield_df = <<>>
    /\ ufield_df = <<>>
    /\ csv = [f \in {} |-> <<>>]
    /\ trace = <<>>
    /\ snapshot \in Chunks(0)
    /\ snapshot_coords = Convert(snapshot)
    /\ dfield = <<>>
    /\ ufield = <<>>
    /\ iprobe = 0
    /\ to_add_dfield = <<>>
    /\ to_add_ufield = <<>>
    /\ rank_pc = [r \in Ranks |-> "write_d"]

RankStep(r, from, to) ==
    /\ rank_pc[r] = from
    /\ rank_pc' = [rank_pc EXCEPT ![r] = to]
    /\ UNCHANGED <<pc, err, args, engine, resolved, natoms, loop, tables,
                   payload, row>>

\* Line 273 on rank r.
RankWriteDfield(r) ==
    /\ RankStep(r, "write_d", "write_u")
    /\ csv' = WriteCsv("dfield.csv", dfield_df)
    /\ trace' = trace

\* Line 274 on rank r.
RankWriteUfield(r) ==
    /\ RankStep(r, "write_u", "exit_cmd")
    /\ csv' = WriteCsv("ufield.csv", ufield_df)
    /\ trace' = trace

\* Line 278 on rank r: no test of the rank guards the call. The calling
\* rank is noted in the data field.
RankSendExit(r) ==
    /\ RankStep(r, "exit_cmd", "barrier")
    /\ trace' = Append(trace, Ev("cmd", "EXIT", 0, <<r>>))
    /\ csv' = csv

\* Lines 281-282: MPI.COMM_WORLD.Barrier() returns on rank r once every
\* rank has entered it.
RankBarrier(r) ==
    /\ \A q \in Ranks : rank_pc[q] \in {"barrier", "done"}
    /\ RankStep(r, "barrier", "done")
    /\ UNCHANGED <<csv, trace>>

NextRanks ==
    \E r \in Ranks :
        \/ RankWriteDfield(r)
        \/ RankWriteUfield(r)
        \/ RankSendExit(r)
        \/ RankBarrier(r)

SpecRanks == InitRanks /\ [][NextRanks]_vars

\* ----------------------------------------------------------------- claims
Count(seq, x) == Cardinality({k \in DOMAIN seq : seq[k] = x})

Positions(seq, x) == {k \in DOMAIN seq : seq[k] = x}

FrameToks == {">COORDS", "<DFIELD", "<UFIELD"}

IsFrameEv(e) == e.tok \in FrameToks

\* The calls of the frame loop, in order.
FrameEvents == SelectSeq(trace, IsFrameEv)

\* The k-th call of a frame (k in 0..5).
FrameStep(k) ==
    CASE k = 0 -> <<{"cmd"}, ">COORDS">>
      [] k = 1 -> <<{"send"}, ">COORDS">>
      [] k = 2 -> <<{"cmd"}, "<DFIELD">>
      [] k = 3 -> <<{"recv", "recv_error"}, "<DFIELD">>
      [] k = 4 -> <<{"cmd"}, "<UFIELD">>
      [] k = 5 -> <<{"recv", "recv_error"}, "<UFIELD">>

Queries == <<"<NAME", "<NATOMS", "<NPOLES", "<IPOLES", "<MOLECULES", "<RESIDUES">>

Registration == <<">NPROBES", ">PROBES">>

PerFrame == <<">COORDS", "<DFIELD", "<UFIELD">>

RECURSIVE Repeat(_, _)
Repeat(seq, n) == IF n = 0 THEN <<>> ELSE seq \o Repeat(seq, n - 1)

\* C1: the calls of the frame loop are, frame after frame, >COORDS and its
\* payload, <DFIELD and its receive, <UFIELD and its receive, nothing in
\* between; a frame's >COORDS is sent only when every frame before it has
\* had its <UFIELD reply received and has been reduced; a run that ends
\* normally has done so for every frame it read.
C1_FrameLoopSynchronous ==
    LET ev == FrameEvents
        ncoords == Count(Commands, ">COORDS")
    IN  /\ \A k \in DOMAIN ev :
              /\ ev[k].op \in FrameStep((k - 1) % 6)[1]
              /\ ev[k].tok = FrameStep((k - 1) % 6)[2]
        /\ \A j \in DOMAIN trace :
              (IsCmd(trace[j]) /\ trace[j].tok \in FrameToks /\ j < Len(trace))
                 => /\ trace[j + 1].tok = trace[j].tok
                    /\ ~IsCmd(trace[j + 1])
        /\ ncoords = frame - (IF pc = "coords_cmd" THEN 1 ELSE 0)
        /\ ncoords <= nreduced + 1
        /\ ncoords <=
              Cardinality({j \in DOMAIN trace :
                              trace[j].op = "recv" /\ trace[j].tok = "<UFIELD"}) + 1
        /\ pc = "done" => /\ Len(ev) = 6 * frame
                          /\ nreduced = frame

C1_TwoFramesDone == pc = "done" /\ frame = 2 /\ Len(probes) > 0

\* C2: >NPROBES and >PROBES are each sent at most once, >NPROBES with the
\* number of probes and then >PROBES with the resolved indices, after the
\* resolution and before the first >COORDS; a run that reaches the frame
\* loop or ends normally has sent each exactly once.
C2_RegistrationOnce ==
    LET cmds == Commands
        nprobes_at == Positions(cmds, ">NPROBES")
        probes_at == Positions(cmds, ">PROBES")
        coords_at == Positions(cmds, ">COORDS")
        sends == {j \in DOMAIN trace : trace[j].op = "send"
                     /\ trace[j].tok \in {">NPROBES", ">PROBES"}}
    IN  /\ Cardinality(nprobes_at) <= 1
        /\ Cardinality(probes_at) <= 1
        /\ \A k \in probes_at : \E j \in nprobes_at : j < k
        /\ nprobes_at # {}
              => /\ Resolvable(ipoles, probes)
                 /\ probe_pole_indices = ProbePoleIndices(ipoles, probes)
                 /\ by_type # ""
        /\ \A k \in coords_at : \E j \in probes_at : j < k
        /\ \A j \in sends :
              trace[j].data = IF trace[j].tok = ">NPROBES"
                              THEN <<Len(probes)>> ELSE probe_pole_indices
        /\ (pc \in {"loop", "done"} \/ frame > 0)
              => /\ Cardinality(nprobes_at) = 1
                 /\ Cardinality(probes_at) = 1
                 /\ Cardinality(sends) = 2

C2_RegisteredThenTwoFrames ==
    /\ pc = "done"
    /\ frame = 2
    /\ Count(Commands, ">PROBES") = 1

\* C3: a run that ends normally has read F >= 1 frames and has sent the six
\* queries, the two registration commands, F times the three frame
\* commands, then EXIT, and nothing else.
C3_CommandSequence ==
    pc = "done" =>
        /\ frame >= 1
        /\ Commands = Queries \o Registration \o Repeat(PerFrame, frame) \o <<"EXIT">>

C3_DoneAfterTwoFrames == pc = "done" /\ frame = 2 /\ Len(Commands) = 15

\* C4: with both --bymol and --byres the run ends in the configuration
\* error and nothing was ever sent to or asked of the engine.
C4_ConflictBeforeEngine ==
    (byres /\ bymol) =>
        /\ trace = <<>>
        /\ pc \in {"start", "aborted"}
        /\ pc = "aborted" => err = "ConfigError"

C4_ConflictRejected == byres /\ bymol /\ pc = "aborted" /\ err = "ConfigError"

\* The resolution of line 137 has gone through.
ProbesResolved == pc = "fragments" \/ by_type # ""

\* C5 (as claimed): once the probes are resolved, every probe identifier is
\* an atom number of the engine, in 1..natoms; an identifier outside that
\* range ends the run at the resolution.
C5_OutOfRangeProbeRejected ==
    ProbesResolved => \A k \in DOMAIN probes : probes[k] \in 1..natoms_engine

\* The run ended at the resolution of the probes (line 137).
ResolutionAborted == pc = "aborted" /\ err = "IndexError" /\ frame = 0

\* C6 (as claimed): when a probe identifier out of range ends the run,
\* nothing has been sent to the engine.
C6_OutOfRangeBeforeEngine == ResolutionAborted => trace = <<>>

\* C6 (amended): when a probe identifier out of range ends the run, the six
\* queries <NAME .. <RESIDUES have been sent and answered, and nothing
\* else: no >NPROBES, no >PROBES, no frame command.
C6_OutOfRangeAfterQueries ==
    ResolutionAborted =>
        /\ Commands = Queries
        /\ Len(trace) = 12
        /\ \A j \in DOMAIN trace : trace[j].op \in {"cmd", "recv"}
        /\ ~Resolvable(ipoles, probes)

C6_ResolutionAbortSeen ==
    ResolutionAborted /\ \E k \in DOMAIN probes : probes[k] > natoms_engine

\* C7: when the atom count of the snapshot file differs from the engine's,
\* the run ends in the compatibility error there and no >COORDS, <DFIELD
\* or <UFIELD is ever sent; every frame is read after the test has passed.
C7_IncompatibleBeforeFrames ==
    /\ (natoms # 0 /\ natoms # natoms_engine)
          => /\ pc = "aborted"
             /\ err = "IncompatibleAtoms"
             /\ FrameEvents = <<>>
             /\ frame = 0
    /\ (frame > 0 \/ FrameEvents # <<>>) => natoms = natoms_engine

C7_IncompatibleSeen ==
    /\ pc = "aborted"
    /\ err = "IncompatibleAtoms"
    /\ natoms # natoms_engine
    /\ Count(Commands, ">PROBES") = 1

\* The rows of F frames of the probes, frame after frame, in probe order.
AllRows(F) == [r \in 1..(F * Len(probes)) |->
                 Row(probes[((r - 1) % Len(probes)) + 1],
                     ((r - 1) \div Len(probes)) + 1)]

\* Every probe identifier is an atom number of the engine.
ValidProbes == \A k \in DOMAIN probes : probes[k] \in 1..natoms_engine

\* C8 (as claimed): the two tables written at the end of a run over F
\* frames with P probes (atom numbers of the engine) hold, frame after
\* frame, one row per probe: P x F rows each.
C8_TablesHoldEveryFrame ==
    (pc = "done" /\ ValidProbes) =>
        /\ csv["dfield.csv"] = AllRows(frame)
        /\ csv["ufield.csv"] = AllRows(frame)

\* The fragments holding the pole number of atom a.
FragmentsOf(a) ==
    {f \in DOMAIN atoms_pole_numbers :
        \E j \in DOMAIN atoms_pole_numbers[f] :
            atoms_pole_numbers[f][j] = ipoles[a]}

\* C9 (as claimed): by molecule and by residue, exactly one fragment holds
\* the site index of each atom.
C9_FragmentsPartitionSites ==
    by_type \in {"molecule", "residue"} =>
        \A a \in 1..natoms_engine : Cardinality(FragmentsOf(a)) = 1

\* C10 (as claimed): without --bymol and --byres the fragments are the
\* atoms: natoms of them, fragment i labelled "atom i" and holding the
\* site index of atom i and nothing else.
C10_AtomModeFragments ==
    /\ by_type # "" => (by_type = "atom" <=> (~bymol /\ ~byres))
    /\ by_type = "atom" =>
          /\ Len(atoms_pole_numbers) = natoms_engine
          /\ Len(from_fragment) = natoms_engine
          /\ \A i \in 1..natoms_engine :
                /\ atoms_pole_numbers[i] = <<ipoles[i]>>
                /\ Label(by_type, from_fragment[i]) = <<"atom", i>>

\* -------------------------------------------------- claims on a row (SpecRow)
\* The sites of fragment f: its members that are 1-based site indices.
MemberSites(f) ==
    {atoms_pole_numbers[f][j] : j \in DOMAIN atoms_pole_numbers[f]} \ {0}

\* The element-wise sum over s in S of rows[s] (rows of one probe, 1-based).
RECURSIVE SumOver(_, _)
SumOver(rows, S) ==
    IF S = {} THEN ZeroVector
    ELSE LET s == CHOOSE x \in S : TRUE
         IN  VectorSum(rows[s], SumOver(rows, S \ {s}))

\* The value stored in a row under fragment f.
Stored(to_add, f) == to_add.fragments[Label(by_type, from_fragment[f])]

\* C11: in the row built for probe i, for each field kind, the value stored
\* under every fragment f is the element-wise sum of tensor[i, s-1, :] over
\* the member sites s of f, with nothing from a site outside f.
C11_FragmentSums ==
    pc = "append" =>
        \A f \in DOMAIN atoms_pole_numbers :
            /\ Stored(to_add_dfield, f) = SumOver(dfield[iprobe + 1], MemberSites(f))
            /\ Stored(to_add_ufield, f) = SumOver(ufield[iprobe + 1], MemberSites(f))

\* C12: in the row built for probe i, a fragment none of whose atoms has a
\* site holds the zero vector, for both field kinds.
C12_EmptyFragmentIsZero ==
    pc = "append" =>
        \A f \in DOMAIN atoms_pole_numbers :
            MemberSites(f) = {} =>
                /\ Stored(to_add_dfield, f) = ZeroVector
                /\ Stored(to_add_ufield, f) = ZeroVector

\* C13: the row built for a probe with a valid atom identifier p carries p
\* and the converted coordinate of atom p of the frame.
C13_ProbeCoordinates ==
    (pc = "append" /\ probes[iprobe + 1] \in 1..natoms) =>
        /\ to_add_dfield.ProbeAtom = probes[iprobe + 1]
        /\ to_add_ufield.ProbeAtom = probes[iprobe + 1]
        /\ to_add_dfield.ProbeCoordinates = Convert(snapshot)[probes[iprobe + 1]]
        /\ to_add_ufield.ProbeCoordinates = Convert(snapshot)[probes[iprobe + 1]]

\* ------------------------------------------ claims on the whole run (Spec)
\* C14: a failed receive ends the run at once. The failure is the last call
\* ever made (no later command, no second attempt), the run is aborted with
\* the protocol error, and when the failed receive is a frame's <DFIELD or
\* <UFIELD nothing is written to the output and no row of that frame
\* exists: the tables hold rows of earlier frames only and the frame is not
\* counted as reduced.
C14_FailedReceiveAborts ==
    \A k \in DOMAIN trace :
        trace[k].op = "recv_error" =>
            /\ k = Len(trace)
            /\ pc = "aborted"
            /\ err = "ProtocolError"
            /\ trace[k].tok \in {"<DFIELD", "<UFIELD"} =>
                   /\ frame >= 1
                   /\ DOMAIN csv = {}
                   /\ nreduced = frame - 1
                   /\ \A r \in DOMAIN dfield_df : dfield_df[r].frame < frame
                   /\ \A r \in DOMAIN ufield_df : ufield_df[r].frame < frame

\* The <UFIELD receive of the second frame failed, after the first frame
\* was reduced to rows.
C14_SecondFrameReceiveFailed ==
    /\ pc = "aborted"
    /\ frame = 2
    /\ trace[Len(trace)] = Ev("recv_error", "<UFIELD", 0, <<>>)
    /\ dfield_df # <<>>

\* C15: a run that completes sent EXIT exactly once, as its very last call:
\* after the last frame's <UFIELD receive, which is the call before it, and
\* after both tables were written; in no other position of a run has EXIT
\* been sent.
C15_ExitOnceAndLast ==
    LET exits == {k \in DOMAIN trace : trace[k].tok = "EXIT"}
    IN  /\ exits # {} => pc = "done"
        /\ pc = "done" =>
               /\ exits = {Len(trace)}
               /\ trace[Len(trace)] = Cmd("EXIT")
               /\ trace[Len(trace) - 1] =
                      Ev("recv", "<UFIELD", 3 * npoles * Len(probes), <<>>)
               /\ DOMAIN csv = {"dfield.csv", "ufield.csv"}

C15_ExitSentAfterTwoFrames ==
    /\ pc = "done"
    /\ frame = 2
    /\ trace[Len(trace)] = Cmd("EXIT")
    /\ csv["ufield.csv"] # <<>>

IsNprobesSend(e) == e.op = "send" /\ e.tok = ">NPROBES"

\* C17: for a valid probe set, the count sent under >NPROBES is the number
\* of requested probes, duplicates included, and the indices sent under
\* >PROBES are as many, in the order of the request: the k-th one is the
\* site index the engine reported for the k-th requested atom.
C17_ProbeIndicesParallel ==
    (ValidProbes /\ trace # <<>>) =>
        LET e == trace[Len(trace)]
        IN  /\ (e.op = "send" /\ e.tok = ">NPROBES") =>
                   e.count = 1 /\ e.data = <<Len(probes)>>
            /\ (e.op = "send" /\ e.tok = ">PROBES") =>
                   /\ e.count = Len(probes)
                   /\ Len(e.data) = Len(probes)
                   /\ \A k \in DOMAIN probes : e.data[k] = ipoles[probes[k]]

\* Two probes given in descending order, on atoms with different site
\* indices, have just been registered.
C17_TwoProbesRegistered ==
    /\ pc = "open"
    /\ probes = <<2, 1>>
    /\ ipoles[1] # ipoles[2]
    /\ trace[Len(trace)].tok = ">PROBES"

\* C18: every >COORDS payload has 3 x natoms values, natoms being the atom
\* count of the engine, and every <DFIELD and <UFIELD receive asks for
\* 3 x npoles x P values, P being the count sent once under >NPROBES.
C18_PayloadSizes ==
    trace # <<>> =>
        LET e == trace[Len(trace)]
        IN  /\ (e.op = "send" /\ e.tok = ">COORDS") =>
                   e.count = 3 * natoms /\ natoms = natoms_engine
            /\ (e.op = "recv" /\ e.tok \in {"<DFIELD", "<UFIELD"}) =>
                   LET reg == SelectSeq(trace, IsNprobesSend)
                   IN  /\ Len(reg) = 1
                       /\ e.count = 3 * npoles * reg[1].data[1]

\* The second frame's <UFIELD reply, for two probes and at least one site,
\* has been received.
C18_SecondFrameReceived ==
    /\ pc = "reduce"
    /\ frame = 2
    /\ Len(probes) = 2
    /\ npoles >= 1
    /\ trace[Len(trace)].count = 6 * npoles

\* C19: with valid inputs (valid probe identifiers, every atom a site, one
\* grouping mode at most, the expected engine, a trajectory of the engine's
\* atom count with at least one frame) and an engine that answers every
\* receive, the run goes on to EXIT: once in the frame loop it does not
\* end in an error.
C19_ValidRunReachesExit ==
    (/\ pc = "aborted"
     /\ frame >= 1
     /\ Len(snapshot) = natoms
     /\ ValidProbes
     /\ npoles = natoms_engine) => err = "ProtocolError"

\* The trajectory held no frame: the one chunk read is empty.
EmptyTrajectory == frame >= 1 /\ snapshot = <<>>

\* The steps of the script from the writing of the tables on.
OutputPcs == {"write_d", "write_u", "exit_cmd", "done"}

\* C20 as stated: EXIT has not been sent in any aborted run; for a
\* trajectory without a frame the loop body does not run, so no frame
\* command is sent, the tables are not created, and the run ends in the
\* error of the writing of the first table, never reaching EXIT.
C20_EmptyTrajectoryFailsAtWrite ==
    /\ pc = "aborted" => \A k \in DOMAIN trace : trace[k].tok # "EXIT"
    /\ EmptyTrajectory =>
           /\ FrameEvents = <<>>
           /\ ~df_bound
           /\ pc \notin {"write_u", "exit_cmd", "done"}
           /\ pc = "aborted" => err = "NameError"

\* C20 amended: EXIT has not been sent in any aborted run; the loop body
\* runs for every trajectory, so no run ends in the error of an uncreated
\* table and the output steps are reached with both tables created; for a
\* trajectory without a frame the body runs once on the empty chunk, and
\* the run then ends in the index error of its first probe with the six
\* calls of that round made and nothing written, or, having no probe,
\* goes on to the output steps.
C20_NoExitOnAbort ==
    /\ pc = "aborted" => \A k \in DOMAIN trace : trace[k].tok # "EXIT"
    /\ err # "NameError"
    /\ pc \in OutputPcs => frame >= 1 /\ df_bound
    /\ EmptyTrajectory =>
           /\ frame = 1
           /\ pc \in OutputPcs => probes = <<>>
           /\ (pc = "aborted" /\ err = "IndexError") =>
                  /\ probes # <<>>
                  /\ Len(FrameEvents) = 6
                  /\ df_bound
                  /\ dfield_df = <<>>
                  /\ DOMAIN csv = {}

\* A trajectory without a frame, given two probes, has ended in the index
\* error of the first row.
C20_EmptyTrajectoryAborted ==
    /\ EmptyTrajectory
    /\ pc = "aborted"
    /\ err = "IndexError"
    /\ Len(probes) = 2
    /\ trace[Len(trace)] = Ev("recv", "<UFIELD", 3 * npoles * 2, <<>>)

\* ------------------------------------- claims on several ranks (SpecRanks)
\* The EXIT commands issued so far, by any rank.
ExitsIssued == {k \in DOMAIN trace : trace[k].tok = "EXIT"}

\* C16: over all the ranks of a run the EXIT command is issued exactly
\* once: never twice, and once by the time any rank is at the barrier.
C16_ExitOnceAcrossRanks ==
    /\ Cardinality(ExitsIssued) <= 1
    /\ (\E r \in Ranks : rank_pc[r] \in {"barrier", "done"}) =>
           Cardinality(ExitsIssued) = 1

====
